---- MODULE Spec2Model ----
(***************************************************************************)
(* Model of elysia-logger: the Logger class (src/src/logger.ts, lines      *)
(* 1-188) and the request-lifecycle plugin with its failure hook           *)
(* (src/src/index.ts, lines 1-298), with the HttpError class               *)
(* (src/unnamed/part_000, lines 143-271).                                  *)
(*                                                                         *)
(* A JavaScript string is a sequence of atoms.  An atom is a TLA+ string   *)
(* standing for one character ("/", "?", "ESC") or for a run of ordinary   *)
(* characters that no scan of the code looks into ("GET", "Validation      *)
(* failed (").  Concatenation is \o.                                       *)
(*                                                                         *)
(* A JavaScript object with optional properties is a function whose        *)
(* domain holds exactly the properties that are set.                       *)
(***************************************************************************)
EXTENDS Integers, Sequences, FiniteSets, TLC

VARIABLES
    options,     \* the LoggerOptions given to logger() / new Logger()
    cachedTime,  \* Logger.cachedTime (static), as a count of seconds
    timer,       \* Logger.timer (static): number of interval timers created
    store,       \* the application store (ctx.store), one object per app
    ctx,         \* per-request context: phase, _start, _requestId, hooks run
    last,        \* the most recent call: its arguments and what it returned
    stdout,      \* what the most recent call wrote through Logger.write
    pinoOut      \* what the most recent call had pino emit

vars == <<options, cachedTime, timer, store, ctx, last, stdout, pinoOut>>

----------------------------------------------------------------------------
(* Bounds *)

\* concurrent requests in flight
NumRequests == 2
\* ticks of the one-second refresh timer
MaxTicks == 1
\* entries of a validation error list
MaxErrors == 2
\* characters of a string given to stripAnsi
MaxLen == 6
\* times stripAnsi is applied to its own result
MaxPasses == 2
\* characters of a validation error entry's path
MaxPathLen == 4
\* characters of a URL after its scheme separator and first host character
MaxUrlLen == 4

----------------------------------------------------------------------------
(* JavaScript values and string primitives *)

\* the value undefined, where a string is expected
Undefined == <<"<undefined>">>

Has(o, k) == k \in DOMAIN o
Get(o, k) == IF Has(o, k) THEN o[k] ELSE Undefined

Min(S) == CHOOSE x \in S : \A y \in S : x <= y

\* String.prototype.indexOf(pat, from): 0-based, -1 when absent
IndexOf(s, pat, from) ==
    LET hits == { i \in from..(Len(s) - Len(pat)) :
                    \A k \in 1..Len(pat) : s[i + k] = pat[k] }
    IN  IF hits = {} THEN -1 ELSE Min(hits)

\* String.prototype.substring(a, b): the arguments are swapped when a > b
Substring(s, a, b) ==
    LET lo == IF a <= b THEN a ELSE b
        hi == IF a <= b THEN b ELSE a
    IN  SubSeq(s, lo + 1, hi)

\* String.prototype.startsWith, for a one-atom prefix
StartsWith(s, c) == Len(s) > 0 /\ s[1] = c

Digit(n) == CASE n = 0 -> "0" [] n = 1 -> "1" [] n = 2 -> "2" [] n = 3 -> "3"
              [] n = 4 -> "4" [] n = 5 -> "5" [] n = 6 -> "6" [] n = 7 -> "7"
              [] n = 8 -> "8" [] n = 9 -> "9"

\* decimal rendering of a natural number, one atom per digit
RECURSIVE NumStr(_)
NumStr(n) == IF n < 10 THEN <<Digit(n)>> ELSE NumStr(n \div 10) \o <<Digit(n % 10)>>

Digits == {"0", "1", "2", "3", "4", "5", "6", "7", "8", "9"}
Letters ==
    {"a", "b", "c", "d", "e", "f", "g", "h", "i", "j", "k", "l", "m",
     "n", "o", "p", "q", "r", "s", "t", "u", "v", "w", "x", "y", "z",
     "A", "B", "C", "D", "E", "F", "G", "H", "I", "J", "K", "L", "M",
     "N", "O", "P", "Q", "R", "S", "T", "U", "V", "W", "X", "Y", "Z"}
Spaces == {" ", "  ", "   ", "\n"}

RECURSIVE Flatten(_)
Flatten(ss) == IF ss = <<>> THEN <<>> ELSE Head(ss) \o Flatten(Tail(ss))

----------------------------------------------------------------------------
(* Logger: src/src/logger.ts *)

ESC == "ESC"
Color(code) == <<ESC, "[">> \o code \o <<"m">>
Green == Color(<<"3", "2">>)
Yellow == Color(<<"3", "3">>)
Red == Color(<<"3", "1">>)
Magenta == Color(<<"3", "5">>)
Cyan == Color(<<"3", "6">>)
Dim == Color(<<"2">>)
Reset == Color(<<"0">>)

Pid == <<"4242">>

\* new Date().toISOString().replace('T', ' ').substring(0, 19), t seconds on
TimeString(t) == <<"2026-01-01 00:00:0">> \o NumStr(t)

ToUpperCase(level) ==
    CASE level = "info" -> "INFO" [] level = "error" -> "ERROR"
      [] level = "warn" -> "WARN" [] level = "debug" -> "DEBUG"
      [] level = "verbose" -> "VERBOSE"

\* a caller-supplied formatter, as in test/logger.test.ts
Formatter(level, message, context) ==
    <<"CUSTOM: [", level, "] ">> \o message

\* a || b for strings: undefined and "" are falsy
Or(a, b) == IF a = Undefined \/ a = <<>> THEN b ELSE a

formatMessage(o, time, level, message, context) ==
    IF Has(o, "formatter")
    THEN Formatter(level, message, Or(context, Get(o, "context")))
    ELSE LET c == Or(context, Or(Get(o, "context"), <<"Elysia">>))
             levelColor ==
                 CASE level = "error" -> Red    [] level = "warn" -> Yellow
                   [] level = "debug" -> Magenta [] level = "verbose" -> Cyan
                   [] OTHER -> Green
         IN  Flatten(<< Green, <<"[Elysia]">>, Reset, <<" ">>,
                        Dim, Pid, <<"  -">>, Reset, <<" ">>,
                        Dim, TimeString(time), Reset, <<"   ">>,
                        levelColor, <<ToUpperCase(level)>>, Reset, <<" ">>,
                        Yellow, <<"[">>, c, <<"]">>, Reset, <<" ">>,
                        message, <<"\n">> >>)

\* length of the match of /\x1b\[[0-9;]*[a-zA-Z]/ at position i, 0 if none
RECURSIVE SkipParams(_, _)
SkipParams(s, j) ==
    IF j <= Len(s) /\ s[j] \in Digits \cup {";"} THEN SkipParams(s, j + 1) ELSE j

AnsiMatch(s, i) ==
    IF i + 1 <= Len(s) /\ s[i] = ESC /\ s[i + 1] = "["
    THEN LET j == SkipParams(s, i + 2)
         IN  IF j <= Len(s) /\ s[j] \in Letters THEN j - i + 1 ELSE 0
    ELSE 0

\* str.replace(/\x1b\[[0-9;]*[a-zA-Z]/g, ''): one left-to-right pass
RECURSIVE StripFrom(_, _)
StripFrom(s, i) ==
    IF i > Len(s) THEN <<>>
    ELSE LET n == AnsiMatch(s, i)
         IN  IF n > 0 THEN StripFrom(s, i + n)
             ELSE <<s[i]>> \o StripFrom(s, i + 1)

stripAnsi(s) == StripFrom(s, 1)

\* String.prototype.trim
RECURSIVE TrimStart(_)
TrimStart(s) == IF s # <<>> /\ Head(s) \in Spaces THEN TrimStart(Tail(s)) ELSE s
RECURSIVE TrimEnd(_)
TrimEnd(s) ==
    IF s # <<>> /\ s[Len(s)] \in Spaces THEN TrimEnd(SubSeq(s, 1, Len(s) - 1)) ELSE s
Trim(s) == TrimEnd(TrimStart(s))

\* pino's level values
LevelValue(l) ==
    CASE l = "trace" -> 10 [] l = "debug" -> 20 [] l = "info" -> 30
      [] l = "warn" -> 40  [] l = "error" -> 50 [] l = "fatal" -> 60

\* pino({ level: options.level || 'info', enabled: options.enabled !== false })
PinoLevel(o) == IF Has(o, "level") THEN o.level ELSE "info"
PinoEnabled(o) == ~(Has(o, "enabled") /\ o.enabled = FALSE)

\* this.pino.<method>(record): written iff enabled and at or above the level
PinoEmit(o, method, record) ==
    IF PinoEnabled(o) /\ LevelValue(method) >= LevelValue(PinoLevel(o))
    THEN << [level |-> method] @@ record >>
    ELSE <<>>

\* mutant: the transport is not looked at
UsesPino_FileOnly(o) == Has(o, "file")

\* this.options.transport === 'json' || this.options.file
UsesPino(o) == (Has(o, "transport") /\ o.transport = "json") \/ Has(o, "file")

\* the pino method each entry point calls
PinoMethod(level) == IF level = "verbose" THEN "trace" ELSE level

\* Logger.log / warn / debug / verbose (level names as formatMessage gets them)
\* returns what is written through Logger.write and what pino emits
LoggerCall(o, time, level, message, context) ==
    LET formatted == formatMessage(o, time, level, message, context)
    IN  IF UsesPino(o)
        THEN [stdout |-> <<>>,
              pino |-> PinoEmit(o, PinoMethod(level),
                                [msg |-> Trim(stripAnsi(formatted))])]
        ELSE [stdout |-> <<formatted>>, pino |-> <<>>]

\* Logger.error
LoggerError(o, time, message, trace, context) ==
    LET formatted == formatMessage(o, time, "error", message, context)
    IN  IF UsesPino(o)
        THEN [stdout |-> <<>>,
              pino |-> PinoEmit(o, "error",
                                [msg |-> Trim(stripAnsi(formatted)),
                                 trace |-> trace])]
        ELSE [stdout |-> <<formatted>> \o
                         (IF trace # Undefined /\ trace # <<>>
                          THEN <<trace \o <<"\n">>>> ELSE <<>>),
              pino |-> <<>>]

----------------------------------------------------------------------------
(* Plugin helpers: src/src/index.ts *)

getPathname(url) ==
    LET queryIndex == IndexOf(url, <<"?">>, 0)
        pathEnd == IF queryIndex = -1 THEN Len(url) ELSE queryIndex
        protocolEnd == IndexOf(url, <<":", "/", "/">>, 0)
        pathStart == IndexOf(url, <<"/">>, protocolEnd + 3)
    IN  IF protocolEnd = -1 THEN url
        ELSE IF pathStart = -1 THEN <<"/">>
        ELSE Substring(url, pathStart, pathEnd)

\* String.prototype.replace("/", ""): drops the first "/" only
ReplaceSlash(s) ==
    LET i == IndexOf(s, <<"/">>, 0)
    IN  IF i = -1 THEN s ELSE SubSeq(s, 1, i) \o SubSeq(s, i + 2, Len(s))

\* e.summary || e.message
SummaryOf(e) == Or(Get(e, "summary"), e.message)

RECURSIVE Join(_, _)
Join(ss, sep) ==
    IF ss = <<>> THEN <<>>
    ELSE IF Len(ss) = 1 THEN ss[1]
    ELSE ss[1] \o sep \o Join(Tail(ss), sep)

formatValidationErrors(errors) ==
    Join([i \in 1..Len(errors) |->
            ReplaceSlash(errors[i].path) \o <<": ">> \o SummaryOf(errors[i])],
         <<", ">>)

\* mutant: the plural whatever the count
Plural_Always(errorCount) == <<"s">>

\* `error${errorCount > 1 ? "s" : ""}`
Plural(errorCount) == IF errorCount > 1 THEN <<"s">> ELSE <<>>

\* mutant: the details leave out the offending value
buildValidationResponse_NoValue(errors) ==
    [error |-> <<"Validation failed">>,
     message |-> <<"Request validation failed with ">> \o NumStr(Len(errors))
                 \o <<" error">> \o Plural(Len(errors)),
     details |-> [i \in 1..Len(errors) |->
                    [field |-> ReplaceSlash(errors[i].path),
                     message |-> SummaryOf(errors[i])]]]

buildValidationResponse(errors) ==
    LET errorCount == Len(errors)
    IN  [error |-> <<"Validation failed">>,
         message |-> <<"Request validation failed with ">> \o NumStr(errorCount)
                     \o <<" error">> \o Plural(errorCount),
         details |-> [i \in 1..Len(errors) |->
                        [field |-> ReplaceSlash(errors[i].path),
                         message |-> SummaryOf(errors[i]),
                         value |-> errors[i].value]]]

----------------------------------------------------------------------------
(* Error values and JSON *)

\* entries of a validation error list, as the framework reports them
Entries ==
    { [path |-> <<"/", "email">>, summary |-> <<"Expected email">>,
       message |-> <<"Expected string to match 'email' format">>, value |-> <<"x">>],
      [path |-> <<"age">>, message |-> <<"Expected number >= 0">>, value |-> <<"-5">>],
      [path |-> <<"/", "a", "/", "b">>, summary |-> <<>>,
       message |-> <<"Required property">>, value |-> Undefined] }

RECURSIVE SeqsUpTo(_, _)
SeqsUpTo(S, n) ==
    IF n = 0 THEN {<<>>}
    ELSE LET shorter == SeqsUpTo(S, n - 1)
         IN  shorter \cup { Append(s, x) : s \in shorter, x \in S }

\* the value of an "errors" property: an array of entries, or a non-array
ErrorsValues ==
    { [isArray |-> TRUE, items |-> es] : es \in SeqsUpTo(Entries, MaxErrors) }
    \cup { [isArray |-> FALSE, items |-> <<>>] }

\* objects a validation error's message can encode
ErrorObjects ==
    { [type |-> t, errors |-> ev] : t \in {<<"validation">>, <<"body">>},
                                    ev \in ErrorsValues }
    \cup { [type |-> <<"validation">>] }

Quote(s) == <<"\"">> \o s \o <<"\"">>

EntryJSON(e) ==
    <<"{", "\"path\":">> \o Quote(e.path)
    \o (IF Has(e, "summary") THEN <<",", "\"summary\":">> \o Quote(e.summary) ELSE <<>>)
    \o <<",", "\"message\":">> \o Quote(e.message)
    \o (IF e.value = Undefined THEN <<>> ELSE <<",", "\"value\":">> \o Quote(e.value))
    \o <<"}">>

\* JSON.stringify of an error object
Stringify(obj) ==
    <<"{", "\"type\":">> \o Quote(obj.type)
    \o (IF Has(obj, "errors")
        THEN <<",", "\"errors\":">> \o
             (IF obj.errors.isArray
              THEN <<"[">> \o Join([i \in 1..Len(obj.errors.items) |->
                                      EntryJSON(obj.errors.items[i])], <<",">>)
                   \o <<"]">>
              ELSE Quote(<<"none">>))
        ELSE <<>>)
    \o <<"}">>

\* the JSON text of each object
JSONTexts == [obj \in ErrorObjects |-> Stringify(obj)]

\* JSON.parse: the object the text encodes; a text that encodes none is a SyntaxError
CanParse(text) == \E obj \in ErrorObjects : JSONTexts[obj] = text
JSONParse(text) == CHOOSE obj \in ErrorObjects : JSONTexts[obj] = text

parseErrorObject(err) ==
    IF err.message # Undefined /\ StartsWith(err.message, "{")
    THEN IF CanParse(err.message) THEN JSONParse(err.message) ELSE err
    ELSE err

\* new HttpError(status, message): src/unnamed/part_000, lines 161-167
\* body is [str |-> text] for a string, [obj |-> object] for an object
HttpError(status, body) ==
    [kind |-> "HttpError", name |-> <<"Error">>, stack |-> <<"Error: at handler">>,
     message |-> IF Has(body, "str") THEN body.str ELSE Stringify(body.obj),
     status |-> status, body |-> body]

\* mutant: toJSON gives the message text, not the body
toJSON_Message(err) == [status |-> err.status, message |-> [str |-> err.message]]

\* HttpError.toJSON
toJSON(err) == [status |-> err.status, message |-> err.body]

\* the static factories: status and default message of each
HttpErrorFactories ==
    [BadRequest |-> [status |-> 400, message |-> <<"Bad Request">>],
     Unauthorized |-> [status |-> 401, message |-> <<"Unauthorized">>],
     Forbidden |-> [status |-> 403, message |-> <<"Forbidden">>],
     NotFound |-> [status |-> 404, message |-> <<"Not Found">>],
     MethodNotAllowed |-> [status |-> 405, message |-> <<"Method Not Allowed">>],
     Conflict |-> [status |-> 409, message |-> <<"Conflict">>],
     PreconditionFailed |-> [status |-> 412, message |-> <<"Precondition Failed">>],
     UnprocessableEntity |-> [status |-> 422, message |-> <<"Unprocessable Entity">>],
     TooManyRequests |-> [status |-> 429, message |-> <<"Too Many Requests">>],
     InternalServerError |-> [status |-> 500, message |-> <<"Internal Server Error">>]]

\* a factory called with no argument (or with undefined)
NoArgument == [none |-> TRUE]

\* mutant: the default message is left out
Factory_NoDefault(f, message) ==
    HttpError(HttpErrorFactories[f].status,
              IF message = NoArgument THEN [str |-> <<>>] ELSE message)

\* HttpError.<f>(message): the default parameter, then new HttpError
Factory(f, message) ==
    HttpError(HttpErrorFactories[f].status,
              IF message = NoArgument THEN [str |-> HttpErrorFactories[f].message]
              ELSE message)

\* a thrown value that is no HttpError; props are extra own properties
PlainError(name, message, props) ==
    [kind |-> "Error", name |-> name, message |-> message,
     stack |-> <<"Error: at handler">>] @@ props

----------------------------------------------------------------------------
(* Requests *)

NoRequest ==
    [method |-> <<>>, url |-> <<>>, path |-> <<>>,
     params |-> "undefined", body |-> "undefined"]

\* the requests the model sends; request r is RequestOf(r)
\* path is the path component of url, as the URL standard defines it
RequestPool ==
    << [method |-> <<"GET">>,
        url |-> <<"h", ":", "/", "/", "x", "/", "a", "?", "q", "=", "1">>,
        path |-> <<"/", "a">>,
        params |-> "undefined", body |-> "undefined"],
       [method |-> <<"POST">>,
        url |-> <<"h", ":", "/", "/", "x", "/", "b">>,
        path |-> <<"/", "b">>,
        params |-> "id", body |-> "object"],
       [method |-> <<"GET">>,
        url |-> <<"h", ":", "/", "/", "x", "/">>,
        path |-> <<"/">>,
        params |-> "empty", body |-> "null"] >>

RequestOf(r) == RequestPool[((r - 1) % Len(RequestPool)) + 1]

\* crypto.randomUUID(): 36 characters, the first eight one atom each
UUIDPool ==
    << <<"1", "b", "9", "d", "6", "b", "c", "d", "-bbfd-4b2d-9b5d-ab8dfbbd4bed">>,
       <<"9", "c", "5", "b", "9", "4", "b", "1", "-35ad-49bb-b118-8e8fc24abf80">>,
       <<"f", "4", "7", "a", "c", "1", "0", "b", "-58cc-4372-a567-0e02b2c3d479">> >>

UUIDOf(r) == UUIDPool[((r - 1) % Len(UUIDPool)) + 1]

Requests == 1..NumRequests

\* Object.keys(ctx.params).length
ParamsKeys(p) == IF p = "id" THEN 1 ELSE 0
ParamsJSON(p) == IF p = "id" THEN <<"{", "\"id\":", "\"7\"", "}">> ELSE <<"{", "}">>
BodyJSON(b) == IF b = "object" THEN <<"{", "\"k\":", "1", "}">> ELSE <<"null">>

\* new URL(url).search: from the first "?" on, empty when nothing follows it
Search(url) ==
    LET q == IndexOf(url, <<"?">>, 0)
    IN  IF q = -1 \/ q = Len(url) - 1 THEN <<>> ELSE Substring(url, q, Len(url))

\* JSON.stringify(Object.fromEntries(url.searchParams)), for a one-pair query
QueryJSON(search) ==
    LET eq == IndexOf(search, <<"=">>, 0)
        key == IF eq = -1 THEN Substring(search, 1, Len(search))
               ELSE Substring(search, 1, eq)
        val == IF eq = -1 THEN <<>> ELSE Substring(search, eq + 1, Len(search))
    IN  <<"{">> \o Quote(key) \o <<":">> \o Quote(val) \o <<"}">>

\* mutant: params is set whenever ctx.params is an object, even an empty one
buildRequestDetails_AnyParams(req) ==
    (IF Search(req.url) # <<>> THEN <<"query">> ELSE <<>>)
    \o (IF req.params # "undefined" THEN <<"params">> ELSE <<>>)
    \o (IF req.body # "undefined" /\ req.body # "null" THEN <<"body">> ELSE <<>>)

\* the keys buildRequestDetails sets, in order
buildRequestDetails(req) ==
    (IF Search(req.url) # <<>> THEN <<"query">> ELSE <<>>)
    \o (IF req.params # "undefined" /\ ParamsKeys(req.params) > 0
        THEN <<"params">> ELSE <<>>)
    \o (IF req.body # "undefined" /\ req.body # "null" THEN <<"body">> ELSE <<>>)

\* JSON.stringify(details)
DetailsJSON(req, keys) ==
    <<"{">> \o
    Join([i \in 1..Len(keys) |->
            CASE keys[i] = "query" -> <<"\"query\":">> \o QueryJSON(Search(req.url))
              [] keys[i] = "params" -> <<"\"params\":">> \o ParamsJSON(req.params)
              [] keys[i] = "body" -> <<"\"body\":">> \o BodyJSON(req.body)],
         <<",">>)
    \o <<"}">>

\* picocolors' yellow
pcYellow(s) == Color(<<"3", "3">>) \o s \o Color(<<"3", "9">>)

\* mutant: the duration is cut off, not rounded
DurationString_Floor(durationNs) ==
    IF durationNs < 1000000
    THEN NumStr(durationNs \div 1000) \o <<"μs">>
    ELSE LET hundredths == durationNs \div 10000
         IN  NumStr(hundredths \div 100) \o <<".">>
             \o <<Digit((hundredths \div 10) % 10), Digit(hundredths % 10)>> \o <<"ms">>

\* duration string of onAfterHandle, from the duration in nanoseconds
\* (durationMs * 1000).toFixed(0) + "μs" below 1 ms, durationMs.toFixed(2) + "ms"
\* toFixed rounds to the nearest value; at an exact half the double's error
\* decides the direction, and on DurationsNs it rounds up as written here
DurationString(durationNs) ==
    IF durationNs < 1000000
    THEN NumStr((durationNs + 500) \div 1000) \o <<"μs">>
    ELSE LET hundredths == (durationNs + 5000) \div 10000
         IN  NumStr(hundredths \div 100) \o <<".">>
             \o <<Digit((hundredths \div 10) % 10), Digit(hundredths % 10)>> \o <<"ms">>

----------------------------------------------------------------------------
(* State *)

\* a call of a Logger entry point
Call(method, message, trace, context) ==
    [method |-> method, message |-> message, trace |-> trace, context |-> context]

\* what one Logger call writes
Effect(o, time, c) ==
    IF c.method = "error"
    THEN LoggerError(o, time, c.message, c.trace, c.context)
    ELSE LoggerCall(o, time, IF c.method = "log" THEN "info" ELSE c.method,
                    c.message, c.context)

\* the sinks receive what the step's Logger calls write, in order
Sinks(calls) ==
    /\ stdout' = Flatten([i \in 1..Len(calls) |->
                            Effect(options, cachedTime, calls[i]).stdout])
    /\ pinoOut' = Flatten([i \in 1..Len(calls) |->
                            Effect(options, cachedTime, calls[i]).pino])

NoBody == [undefined |-> TRUE]

\* mutant: requests are logged whatever autoLogging says
AutoLogging_Always(o) == TRUE

\* mutant: the request start is logged whatever logRequestStart says
LogRequestStart_Always(o) == TRUE

\* options.autoLogging !== false, options.logRequestStart !== false
AutoLogging(o) == ~(Has(o, "autoLogging") /\ o.autoLogging = FALSE)
LogRequestStart(o) == ~(Has(o, "logRequestStart") /\ o.logRequestStart = FALSE)
\* mutant: details are logged whatever logDetails says
LogDetails_Always(o) == TRUE

\* options.logDetails (truthy), options.logRequestId === true
LogDetails(o) == Has(o, "logDetails") /\ o.logDetails = TRUE
LogRequestId(o) == Has(o, "logRequestId") /\ o.logRequestId = TRUE

\* ctx._requestId ? `[${ctx._requestId.slice(0, 8)}] ` : ""
RequestInfo(id) ==
    IF id = Undefined THEN <<>> ELSE <<"[">> \o SubSeq(id, 1, 8) \o <<"] ">>

----------------------------------------------------------------------------
(* Lifecycle hooks: src/src/index.ts, lines 126-275 *)

\* options.context || "Router"
RouterContext(o) == Or(Get(o, "context"), <<"Router">>)

\* .onRequest: the Logger calls it makes
onRequest(o, c, req) ==
    IF AutoLogging(o) /\ LogRequestStart(o)
    THEN <<Call("log",
                RequestInfo(c._requestId) \o req.method \o <<" ">> \o getPathname(req.url),
                Undefined, RouterContext(o))>>
    ELSE <<>>

\* .onAfterHandle: the Logger calls it makes
onAfterHandle(o, c, req, storePathname, now) ==
    IF ~AutoLogging(o) \/ c._start = 0 THEN <<>>
    ELSE LET duration == DurationString(now - c._start)
             pathname == Or(storePathname, getPathname(req.url))
             baseMessage == RequestInfo(c._requestId) \o req.method \o <<" ">>
                            \o pathname \o <<" ">> \o pcYellow(<<"+">> \o duration)
             details == buildRequestDetails(req)
             detailsString ==
                 IF LogDetails(o) /\ Len(details) > 0
                 THEN <<" ">> \o DetailsJSON(req, details) ELSE <<>>
         IN  <<Call("log", baseMessage \o detailsString, Undefined, RouterContext(o))>>

\* errorObj.type === "validation" && errorObj.errors && Array.isArray(errorObj.errors)
IsValidation(errorObj) ==
    /\ Get(errorObj, "type") = <<"validation">>
    /\ Has(errorObj, "errors")
    /\ errorObj.errors.isArray

\* mutant: the message is logged whenever it is a string
exceptionMessage_AnyString(err) ==
    IF err.message # Undefined THEN err.message
    ELSE Or(err.name, <<"Unknown error">>)

\* the text logged for a generic exception: index.ts, lines 264-267
exceptionMessage(err) ==
    IF err.message # Undefined /\ ~StartsWith(err.message, "{")
    THEN err.message
    ELSE Or(err.name, <<"Unknown error">>)

\* mutant: an HttpError is told by its message, which must not look like JSON
IsHttpError_ByMessage(err) == err.kind = "HttpError" /\ ~StartsWith(err.message, "{")

\* err instanceof HttpError
IsHttpError(err) == err.kind = "HttpError"

\* .onError: the Logger calls it makes, the status it leaves, what it returns
onError(o, req, storePathname, code, err, statusBefore) ==
    LET pathname == Or(storePathname, getPathname(req.url))
        head == req.method \o <<" ">> \o pathname \o <<" - ">>
    IN  IF code = "VALIDATION"
        THEN LET errorObj == parseErrorObject(err)
             IN  IF IsValidation(errorObj)
                 THEN LET errors == errorObj.errors.items
                          errorCount == Len(errors)
                      IN  [calls |-> <<Call("warn",
                                            head \o <<"Validation failed (">>
                                            \o NumStr(errorCount) \o <<" error">>
                                            \o Plural(errorCount) \o <<"): ">>
                                            \o formatValidationErrors(errors),
                                            Undefined, <<"ValidationError">>)>>,
                           status |-> 400,
                           ret |-> buildValidationResponse(errors)]
                 ELSE [calls |-> <<>>, status |-> statusBefore, ret |-> NoBody]
        ELSE IF IsHttpError(err)
        THEN [calls |-> <<Call("warn", head \o err.message, Undefined, <<"HttpError">>)>>,
              status |-> err.status,
              ret |-> toJSON(err)]
        ELSE [calls |-> <<Call("error", head \o exceptionMessage(err), err.stack,
                               <<"Exception">>)>>,
              status |-> statusBefore,
              ret |-> NoBody]

----------------------------------------------------------------------------
(* Actions *)

loggerVars == <<options, cachedTime, timer>>

\* one hook of a request's lifecycle, with the Logger calls it made
Step(op, calls) == [op |-> op, calls |-> calls]

\* the framework calls onRequest first, before the context is derived
OnRequest(r, req) ==
    /\ ctx[r].phase = "idle"
    /\ LET calls == onRequest(options, ctx[r], req)
       IN  /\ store' = IF AutoLogging(options) /\ LogRequestStart(options)
                       THEN [pathname |-> getPathname(req.url)] ELSE store
           /\ last' = [op |-> "onRequest", req |-> r, calls |-> calls]
           /\ Sinks(calls)
    /\ ctx' = [ctx EXCEPT ![r] =
                 [@ EXCEPT !.phase = "started", !.request = req,
                           !.steps = Append(@, Step("onRequest",
                                                    onRequest(options, ctx[r], req)))]]
    /\ UNCHANGED loggerVars

\* .derive: _start and _requestId join the request's context
Derive(r, start, uuid) ==
    /\ ctx[r].phase = "started"
    /\ ctx' = [ctx EXCEPT ![r] =
                 [@ EXCEPT !.phase = "handling", !._start = start,
                           !._requestId = IF LogRequestId(options) THEN uuid
                                          ELSE Undefined,
                           !.steps = Append(@, Step("derive", <<>>))]]
    /\ last' = [op |-> "derive", req |-> r, calls |-> <<>>]
    /\ Sinks(<<>>)
    /\ UNCHANGED <<loggerVars, store>>

\* the handler returned
OnAfterHandle(r, now) ==
    /\ ctx[r].phase = "handling"
    /\ now >= ctx[r]._start
    /\ LET calls == onAfterHandle(options, ctx[r], ctx[r].request, store.pathname, now)
       IN  /\ last' = [op |-> "onAfterHandle", req |-> r, calls |-> calls,
                       durationNs |-> now - ctx[r]._start]
           /\ Sinks(calls)
           /\ ctx' = [ctx EXCEPT ![r] =
                        [@ EXCEPT !.phase = "completed",
                                  !.steps = Append(@, Step("onAfterHandle", calls))]]
    /\ UNCHANGED <<loggerVars, store>>

\* routing, parsing, validation or the handler threw
OnError(r, code, err, statusBefore) ==
    /\ ctx[r].phase \in {"started", "handling"}
    /\ LET res == onError(options, ctx[r].request, store.pathname, code, err, statusBefore)
       IN  /\ last' = [op |-> "onError", req |-> r, calls |-> res.calls,
                       code |-> code, error |-> err, statusBefore |-> statusBefore,
                       status |-> res.status, ret |-> res.ret]
           /\ Sinks(res.calls)
           /\ ctx' = [ctx EXCEPT ![r] =
                        [@ EXCEPT !.phase = "failed",
                                  !.steps = Append(@, Step("onError", res.calls))]]
    /\ UNCHANGED <<loggerVars, store>>

\* a hook registered after the plugin's onAfterHandle threw, or the response
\* failed its schema: the framework calls the failure hook for a request
\* whose completion the plugin has already logged; the hooks keep no record
\* of what they logged for a request
OnLateError(r, code, err, statusBefore) ==
    /\ ctx[r].phase = "completed"
    /\ LET res == onError(options, ctx[r].request, store.pathname, code, err, statusBefore)
       IN  /\ last' = [op |-> "onError", req |-> r, calls |-> res.calls,
                       code |-> code, error |-> err, statusBefore |-> statusBefore,
                       status |-> res.status, ret |-> res.ret]
           /\ Sinks(res.calls)
           /\ ctx' = [ctx EXCEPT ![r] =
                        [@ EXCEPT !.phase = "failed",
                                  !.steps = Append(@, Step("onError", res.calls))]]
    /\ UNCHANGED <<loggerVars, store>>

\* application code calls an entry point of the Logger
LoggerEntry(method, message, trace, context) ==
    /\ last' = [op |-> "Logger", req |-> 0,
                calls |-> <<Call(method, message, trace, context)>>]
    /\ Sinks(<<Call(method, message, trace, context)>>)
    /\ UNCHANGED <<loggerVars, store, ctx>>

Log(message, context) == LoggerEntry("log", message, Undefined, context)
Error(message, trace, context) == LoggerEntry("error", message, trace, context)
Warn(message, context) == LoggerEntry("warn", message, Undefined, context)
Debug(message, context) == LoggerEntry("debug", message, Undefined, context)
Verbose(message, context) == LoggerEntry("verbose", message, Undefined, context)

\* stripAnsi is applied to the string at hand, an input or an earlier result
StripAnsi ==
    /\ last.op \in {"input", "stripAnsi"}
    /\ last.pass < MaxPasses
    /\ last' = [op |-> "stripAnsi", req |-> 0, calls |-> <<>>,
                input |-> last.output, output |-> stripAnsi(last.output),
                pass |-> last.pass + 1]
    /\ Sinks(<<>>)
    /\ UNCHANGED <<loggerVars, store, ctx>>

\* handler code calls a factory of HttpError
CallFactory(f, message) ==
    /\ last' = [op |-> "HttpError", req |-> 0, calls |-> <<>>,
                factory |-> f, argument |-> message, error |-> Factory(f, message)]
    /\ Sinks(<<>>)
    /\ UNCHANGED <<loggerVars, store, ctx>>

\* toJSON of the error just made
ToJSON ==
    /\ last.op = "HttpError"
    /\ last' = [last EXCEPT !.op = "toJSON"] @@ [ret |-> toJSON(last.error)]
    /\ Sinks(<<>>)
    /\ UNCHANGED <<loggerVars, store, ctx>>

\* Logger.write: the message is given to Bun.write, whose promise is dropped,
\* or to stream.write, which reports failure by an event; either way the
\* write is in flight when write returns, and write throws nothing
write(bun, message) ==
    [via |-> IF bun THEN "Bun.write" ELSE "stream.write",
     message |-> message, state |-> "pending"]

\* a Logger call on the pretty sink, up to its return
WriteCall(c, bun) ==
    /\ ~UsesPino(options)
    /\ LET written == Effect(options, cachedTime, c).stdout
       IN  last' = [op |-> "write", req |-> 0, calls |-> <<c>>,
                    writes |-> [i \in 1..Len(written) |-> write(bun, written[i])],
                    thrown |-> FALSE]
    /\ Sinks(<<c>>)
    /\ UNCHANGED <<loggerVars, store, ctx>>

\* the runtime finishes a write in flight: it succeeds or it fails
Settle(i, ok) ==
    /\ last.op \in {"write", "settle"}
    /\ i \in 1..Len(last.writes)
    /\ last.writes[i].state = "pending"
    /\ \A j \in 1..(i - 1) : last.writes[j].state # "pending"
    /\ last' = [last EXCEPT !.op = "settle",
                            !.writes[i].state = IF ok THEN "fulfilled" ELSE "rejected"]
    /\ UNCHANGED <<loggerVars, store, ctx, stdout, pinoOut>>

\* getPathname is applied to the URL at hand
GetPathname ==
    /\ last.op = "url"
    /\ last' = [last EXCEPT !.op = "getPathname"] @@ [ret |-> getPathname(last.url)]
    /\ Sinks(<<>>)
    /\ UNCHANGED <<loggerVars, store, ctx>>

\* formatValidationErrors is applied to the error list at hand
FormatValidationErrors ==
    /\ last.op = "errors"
    /\ last' = [last EXCEPT !.op = "formatValidationErrors"]
               @@ [ret |-> formatValidationErrors(last.errors)]
    /\ Sinks(<<>>)
    /\ UNCHANGED <<loggerVars, store, ctx>>

\* buildValidationResponse is applied to the error list at hand
BuildValidationResponse ==
    /\ last.op = "errors"
    /\ last' = [last EXCEPT !.op = "buildValidationResponse"]
               @@ [ret |-> buildValidationResponse(last.errors)]
    /\ Sinks(<<>>)
    /\ UNCHANGED <<loggerVars, store, ctx>>

\* mutant: every construction starts a timer
StartTimer_Always(t) == t + 1

\* if (!Logger.timer) { Logger.timer = setInterval(...) }, on the number of
\* interval timers created so far
StartTimer(t) == IF t = 0 THEN 1 ELSE t

\* new Logger(o): the timer is started once
NewLogger(o) ==
    /\ options' = o
    /\ timer' = StartTimer(timer)
    /\ last' = [op |-> "new Logger", req |-> 0, calls |-> <<>>]
    /\ Sinks(<<>>)
    /\ UNCHANGED <<cachedTime, store, ctx>>

\* the interval callback refreshes the cached time
Tick ==
    /\ timer > 0
    /\ cachedTime < MaxTicks
    /\ cachedTime' = cachedTime + 1
    /\ last' = [op |-> "tick", req |-> 0, calls |-> <<>>]
    /\ Sinks(<<>>)
    /\ UNCHANGED <<options, timer, store, ctx>>

----------------------------------------------------------------------------
(* Inputs *)

Choice(k, values) == {<<>>} \cup { k :> v : v \in values }

\* options of the Logger class
LoggerOptionSets ==
    { a @@ b @@ c @@ d @@ e @@ f :
        a \in Choice("enabled", {TRUE, FALSE}),
        b \in Choice("level", {"fatal", "error", "warn", "info", "debug", "trace"}),
        c \in Choice("transport", {"console", "json"}),
        d \in Choice("file", {<<"./app.log">>}),
        e \in Choice("formatter", {TRUE}),
        f \in Choice("context", {<<"MyApp">>}) }

\* options of the plugin
PluginOptionSets ==
    { a @@ b @@ c @@ d @@ e :
        a \in Choice("autoLogging", {FALSE}),
        b \in Choice("logRequestStart", {FALSE}),
        c \in Choice("logDetails", {TRUE}),
        d \in Choice("logRequestId", {TRUE, FALSE}),
        e \in Choice("transport", {"json"}) }

Messages ==
    { <<"hello">>,
      <<" ">> \o Yellow \o <<"warm">> \o Reset \o <<" ">> }
Contexts == { Undefined, <<"Ctx">> }
Traces == { Undefined, <<"Error: at f">> }

Codes == {"VALIDATION", "NOT_FOUND", "UNKNOWN"}
Statuses == {200, 500}

ValidationObject(es) ==
    [type |-> <<"validation">>, errors |-> [isArray |-> TRUE, items |-> es]]

\* the framework's validation error carries the JSON text as its message
\* and its own type property (the part of the request that failed)
ValidationErrors ==
    { PlainError(<<"Error">>, Stringify(obj), [type |-> <<"body">>]) :
        obj \in ErrorObjects }

HttpErrors ==
    { HttpError(404, [str |-> <<"dd">>]),
      HttpError(400, [str |-> <<"Bad Request">>]),
      HttpError(422, [obj |-> [type |-> <<"body">>]]),
      HttpError(409, [obj |-> ValidationObject(<<>>)]) }

PlainErrors ==
    { PlainError(<<"Error">>, <<"boom">>, <<>>),
      PlainError(<<"SyntaxError">>, <<"{", "not json">>, <<>>),
      PlainError(<<>>, <<"{", "not json">>, <<>>),
      PlainError(<<"TypeError">>, Undefined, <<>>) }

AllErrors == ValidationErrors \cup HttpErrors \cup PlainErrors

\* the errors the concurrent specification throws
SomeErrors ==
    { PlainError(<<"Error">>, <<"boom">>, <<>>),
      HttpError(404, [str |-> <<"dd">>]) }

\* requests to one route with every combination of query, params and body
DetailRequests ==
    { [method |-> <<"GET">>, url |-> <<"h", ":", "/", "/", "x", "/", "a">> \o search,
       path |-> <<"/", "a">>, params |-> p, body |-> b] :
        search \in { <<>>, <<"?">>, <<"?", "q", "=", "1">>, <<"?", "t", "=", "s">> },
        p \in {"undefined", "empty", "id"},
        b \in {"undefined", "null", "object"} }
    \cup { RequestPool[q] : q \in 1..Len(RequestPool) }

\* what handler code gives a factory: nothing, a string, an object
FactoryArguments ==
    { NoArgument, [str |-> <<"dd">>], [str |-> <<>>], [str |-> <<"{", "x">>],
      [obj |-> [type |-> <<"body">>]], [obj |-> ValidationObject(<<>>)] }

\* URLs scheme://authority[/path][?query]: after "h://x" any run of "/", "?"
\* and an ordinary character
Urls ==
    { <<"h", ":", "/", "/", "x">> \o rest : rest \in SeqsUpTo({"/", "?", "a"}, MaxUrlLen) }

\* paths of validation error entries: runs of the separator and field names
Paths == SeqsUpTo({"/", "a", "b"}, MaxPathLen)

\* one-entry error lists, one for each path
PathErrors ==
    { <<[path |-> p, message |-> <<"Required property">>, value |-> Undefined]>> :
        p \in Paths }

\* strings of escape bytes, brackets, parameter digits and final letters
AnsiStrings == SeqsUpTo({ESC, "[", "0", "m"}, MaxLen)

StartMarks == {1000}
DurationsNs == {0, 999499, 999500, 999900, 1000000, 1234567}

----------------------------------------------------------------------------
(* Specifications *)

InitCommon ==
    /\ cachedTime = 0
    /\ timer = StartTimer(0)
    /\ store = [pathname |-> Undefined]
    /\ ctx = [r \in Requests |->
                [phase |-> "idle", request |-> NoRequest, _start |-> 0,
                 _requestId |-> Undefined, steps |-> <<>>]]
    /\ last = [op |-> "new Logger", req |-> 0, calls |-> <<>>]
    /\ stdout = <<>>
    /\ pinoOut = <<>>

\* concurrent requests through the plugin
Init == options \in PluginOptionSets /\ InitCommon

Next ==
    \E r \in Requests :
        \/ OnRequest(r, RequestOf(r))
        \/ \E start \in StartMarks : Derive(r, start, UUIDOf(r))
        \/ \E d \in {250000} : OnAfterHandle(r, ctx[r]._start + d)
        \/ \E err \in SomeErrors : OnError(r, "UNKNOWN", err, 200)

Spec == Init /\ [][Next]_vars

\* one request, every error value
NextError ==
    \/ \E q \in 1..Len(RequestPool) : OnRequest(1, RequestPool[q])
    \/ \E start \in StartMarks, u \in 1..2 : Derive(1, start, UUIDPool[u])
    \/ \E d \in DurationsNs : OnAfterHandle(1, ctx[1]._start + d)
    \/ \E code \in Codes, err \in AllErrors, st \in Statuses : OnError(1, code, err, st)

\* options that bear on the failure hook
ErrorOptionSets ==
    { o \in PluginOptionSets : ~Has(o, "logDetails") /\ ~Has(o, "transport") }

InitError == options \in ErrorOptionSets /\ InitCommon

SpecError == InitError /\ [][NextError]_vars

\* one request handled with success, every shape of request details
DetailOptionSets ==
    { d @@ o : d \in Choice("logDetails", {TRUE, FALSE}), o \in ErrorOptionSets }

InitDetails == options \in DetailOptionSets /\ InitCommon

NextDetails ==
    \/ \E req \in DetailRequests : OnRequest(1, req)
    \/ \E start \in StartMarks : Derive(1, start, UUIDPool[1])
    \/ \E d \in {250000, 1500000} : OnAfterHandle(1, ctx[1]._start + d)

SpecDetails == InitDetails /\ [][NextDetails]_vars

\* stripAnsi on its own, applied to a string and then to its result
InitStrip ==
    /\ options = <<>>
    /\ cachedTime = 0
    /\ timer = 1
    /\ store = [pathname |-> Undefined]
    /\ ctx = [r \in Requests |->
                [phase |-> "idle", request |-> NoRequest, _start |-> 0,
                 _requestId |-> Undefined, steps |-> <<>>]]
    /\ last \in { [op |-> "input", req |-> 0, calls |-> <<>>,
                    input |-> str, output |-> str, pass |-> 0] : str \in AnsiStrings }
    /\ stdout = <<>>
    /\ pinoOut = <<>>

NextStrip == StripAnsi

SpecStrip == InitStrip /\ [][NextStrip]_vars

\* the HttpError class on its own
NextHttpError ==
    \/ \E f \in DOMAIN HttpErrorFactories, message \in FactoryArguments :
           CallFactory(f, message)
    \/ ToJSON

SpecHttpError == InitError /\ [][NextHttpError]_vars

\* Logger.write and the runtime's completion of each write
ConsoleOptionSets ==
    { o \in LoggerOptionSets : ~UsesPino(o) /\ ~Has(o, "level") /\ ~Has(o, "enabled") }

InitWrite == options \in ConsoleOptionSets /\ InitCommon

NextWrite ==
    \/ \E m \in Messages, bun \in BOOLEAN :
           WriteCall(Call("log", m, Undefined, Undefined), bun)
    \/ \E m \in Messages, t \in Traces, bun \in BOOLEAN :
           WriteCall(Call("error", m, t, Undefined), bun)
    \/ \E i \in 1..2, ok \in BOOLEAN : Settle(i, ok)

SpecWrite == InitWrite /\ [][NextWrite]_vars

\* one request, with failures before, in and after the handler
NextOutcome ==
    \/ \E q \in 1..Len(RequestPool) : OnRequest(1, RequestPool[q])
    \/ \E start \in StartMarks : Derive(1, start, UUIDPool[1])
    \/ \E d \in {250000} : OnAfterHandle(1, ctx[1]._start + d)
    \/ \E err \in SomeErrors : OnError(1, "UNKNOWN", err, 200)
    \/ \E err \in SomeErrors : OnLateError(1, "UNKNOWN", err, 200)

SpecOutcome == InitError /\ [][NextOutcome]_vars

\* getPathname on its own
InitPathname ==
    /\ options = <<>>
    /\ cachedTime = 0
    /\ timer = 1
    /\ store = [pathname |-> Undefined]
    /\ ctx = [r \in Requests |->
                [phase |-> "idle", request |-> NoRequest, _start |-> 0,
                 _requestId |-> Undefined, steps |-> <<>>]]
    /\ last \in { [op |-> "url", req |-> 0, calls |-> <<>>, url |-> u] : u \in Urls }
    /\ stdout = <<>>
    /\ pinoOut = <<>>

NextPathname == GetPathname

SpecPathname == InitPathname /\ [][NextPathname]_vars

\* formatValidationErrors and buildValidationResponse on their own
InitFields ==
    /\ options = <<>>
    /\ cachedTime = 0
    /\ timer = 1
    /\ store = [pathname |-> Undefined]
    /\ ctx = [r \in Requests |->
                [phase |-> "idle", request |-> NoRequest, _start |-> 0,
                 _requestId |-> Undefined, steps |-> <<>>]]
    /\ last \in { [op |-> "errors", req |-> 0, calls |-> <<>>, errors |-> es] :
                    es \in PathErrors }
    /\ stdout = <<>>
    /\ pinoOut = <<>>

NextFields ==
    \/ FormatValidationErrors
    \/ BuildValidationResponse

SpecFields == InitFields /\ [][NextFields]_vars

\* the Logger class on its own
InitLogger == options \in LoggerOptionSets /\ InitCommon

NextLogger ==
    \/ \E o \in {<<>>, [transport |-> "json"], [file |-> <<"./app.log">>]} : NewLogger(o)
    \/ Tick
    \/ \E m \in Messages, c \in Contexts : Log(m, c)
    \/ \E m \in Messages, t \in Traces, c \in Contexts : Error(m, t, c)
    \/ \E m \in Messages, c \in Contexts : Warn(m, c)
    \/ \E m \in Messages, c \in Contexts : Debug(m, c)
    \/ \E m \in Messages, c \in Contexts : Verbose(m, c)

SpecLogger == InitLogger /\ [][NextLogger]_vars

----------------------------------------------------------------------------
(* Claims *)

\* pat occurs in s, as consecutive atoms
Contains(s, pat) == IndexOf(s, pat, 0) # -1

IsPrefix(pre, s) == Len(pre) <= Len(s) /\ SubSeq(s, 1, Len(pre)) = pre

FailureHookRan == last.op = "onError"

\* the list of entries a validation message encodes, if it encodes one
EncodesEntries(message, es) == message = Stringify(ValidationObject(es))
EncodesValidation(message) ==
    message # Undefined /\ \E es \in SeqsUpTo(Entries, MaxErrors) : EncodesEntries(message, es)
EncodedEntries(message) ==
    CHOOSE es \in SeqsUpTo(Entries, MaxErrors) : EncodesEntries(message, es)

\* the failure hook got code VALIDATION and a well-formed validation message
ValidationFailure ==
    /\ FailureHookRan
    /\ last.code = "VALIDATION"
    /\ EncodesValidation(last.error.message)

\* C1: every invocation of the failure hook makes exactly one Logger call
C1_OneLogPerFailure == FailureHookRan => Len(last.calls) = 1

\* C2: code VALIDATION with a message that is no well-formed validation object
\* is logged as a generic exception: one error call with context "Exception"
C2_MalformedValidationIsException ==
    (FailureHookRan /\ last.code = "VALIDATION" /\ ~EncodesValidation(last.error.message))
    => /\ Len(last.calls) = 1
       /\ last.calls[1].method = "error"
       /\ last.calls[1].context = <<"Exception">>

\* the completion or failure log of request r names r's own path
LogsOwnPath(r, message) ==
    LET req == ctx[r].request
    IN  \/ IsPrefix(RequestInfo(ctx[r]._requestId) \o req.method \o <<" ">>
                    \o req.path \o <<" ">>, message)
        \/ IsPrefix(req.method \o <<" ">> \o req.path \o <<" - ">>, message)

\* C3: the path in a request's completion log or failure log is the path of
\* that request's own URL, under every interleaving of concurrent requests
C3_PathIsRequestScoped ==
    (last.op \in {"onAfterHandle", "onError"} /\ Len(last.calls) > 0)
    => LogsOwnPath(last.req, last.calls[1].message)

LoggerCalled == last.op = "Logger"

NothingWritten == stdout = <<>> /\ pinoOut = <<>>

\* C4: with enabled = false every Logger entry point writes nothing
C4_DisabledIsSilent ==
    (LoggerCalled /\ Has(options, "enabled") /\ options.enabled = FALSE)
    => NothingWritten

\* the pino level of the entry point called, and the configured threshold
CalledLevel == PinoMethod(IF last.calls[1].method = "log" THEN "info"
                          ELSE last.calls[1].method)
Threshold == IF Has(options, "level") THEN options.level ELSE "info"
Unfiltered ==
    /\ ~(Has(options, "enabled") /\ options.enabled = FALSE)
    /\ LevelValue(CalledLevel) >= LevelValue(Threshold)

\* C5: a call below the level threshold writes nothing
C5_BelowThresholdIsSilent ==
    (LoggerCalled /\ LevelValue(CalledLevel) < LevelValue(Threshold))
    => NothingWritten

ConsoleTransport == ~Has(options, "transport") \/ options.transport = "console"
JsonTransport == Has(options, "transport") /\ options.transport = "json"

\* C6: with transport console and a file, every unfiltered call writes to
\* the console and emits a record to the file
C6_HybridWritesBoth ==
    (LoggerCalled /\ ConsoleTransport /\ Has(options, "file") /\ Unfiltered)
    => (stdout # <<>> /\ pinoOut # <<>>)

\* C7: without a file, transport json emits exactly one record per
\* unfiltered call and writes nothing to stdout; transport console writes
\* the line with the message to stdout and emits no record
C7_SinkRouting ==
    (LoggerCalled /\ ~Has(options, "file"))
    => /\ JsonTransport => /\ stdout = <<>>
                           /\ Unfiltered => Len(pinoOut) = 1
       /\ ConsoleTransport => /\ pinoOut = <<>>
                              /\ Len(stdout) >= 1
                              /\ Contains(stdout[1], last.calls[1].message)

C7_Witness ==
    /\ LoggerCalled /\ ~Has(options, "file") /\ JsonTransport /\ Unfiltered
    /\ Len(pinoOut) = 1 /\ stdout = <<>>

\* text says "<N> error", with the plural "errors" iff N > 1
SaysCount(text, n) ==
    \E i \in 1..(Len(text) - 1) :
        /\ text[i] = NumStr(n)[1]
        /\ text[i + 1] = " error"
        /\ (i + 2 <= Len(text) /\ text[i + 2] = "s") <=> (n > 1)

\* C8: a validation failure with N >= 1 entries gives a details array of N
\* entries in the input's order, and "<N> error(s)" in the log message and
\* in the response message
C8_ValidationCount ==
    (ValidationFailure /\ Len(EncodedEntries(last.error.message)) >= 1)
    => LET es == EncodedEntries(last.error.message)
           n == Len(es)
       IN  /\ Len(last.ret.details) = n
           /\ \A i \in 1..n : /\ last.ret.details[i].value = es[i].value
                              /\ last.ret.details[i].message = SummaryOf(es[i])
           /\ Len(last.calls) = 1
           /\ SaysCount(last.calls[1].message, n)
           /\ SaysCount(last.ret.message, n)

C8_Witness ==
    /\ ValidationFailure
    /\ Len(EncodedEntries(last.error.message)) = 2
    /\ Len(last.ret.details) = 2
    /\ last.ret.details[1] # last.ret.details[2]

\* C9: a validation failure sets status 400 whatever it was, returns error
\* "Validation failed" with details of {field, message, value}, and is
\* logged by warn with context "ValidationError"
C9_ValidationResponse ==
    ValidationFailure
    => /\ last.status = 400
       /\ last.ret.error = <<"Validation failed">>
       /\ \A i \in DOMAIN last.ret.details :
              DOMAIN last.ret.details[i] = {"field", "message", "value"}
       /\ Len(last.calls) = 1
       /\ last.calls[1].method = "warn"
       /\ last.calls[1].context = <<"ValidationError">>

C9_Witness ==
    /\ ValidationFailure
    /\ last.statusBefore = 500
    /\ last.status = 400
    /\ Len(last.ret.details) >= 1

\* the failure hook handled the HttpError as a typed HTTP error
HandledAsHttpError ==
    LET req == ctx[last.req].request
    IN  /\ Len(last.calls) = 1
        /\ last.calls[1].method = "warn"
        /\ last.calls[1].context = <<"HttpError">>
        /\ last.calls[1].message =
               req.method \o <<" ">> \o req.path \o <<" - ">> \o last.error.message
        /\ last.status = last.error.status
        /\ last.ret = [status |-> last.error.status, message |-> last.error.body]

IsSuffix(suf, s) ==
    Len(suf) <= Len(s) /\ SubSeq(s, Len(s) - Len(suf) + 1, Len(s)) = suf

\* the failure is neither a validation failure nor a typed HTTP error
GenericException ==
    /\ FailureHookRan
    /\ last.error.kind # "HttpError"
    /\ ~ValidationFailure

\* the error's message is a string that starts with "{"
LooksLikeJSON(err) == err.message # Undefined /\ StartsWith(err.message, "{")

\* C11: the text logged for a generic exception ends with the error's message,
\* unless the message is no string or starts with "{": then it ends with the
\* error's name, or with "Unknown error" if the name is empty; a message that
\* starts with "{" is no part of the logged text
C11_ExceptionText ==
    GenericException =>
        \A i \in 1..Len(last.calls) :
            LET err == last.error
                text == last.calls[i].message
            IN  /\ (err.message # Undefined /\ ~LooksLikeJSON(err))
                       => IsSuffix(<<" - ">> \o err.message, text)
                /\ ((err.message = Undefined \/ LooksLikeJSON(err)) /\ err.name # <<>>)
                       => IsSuffix(<<" - ">> \o err.name, text)
                /\ ((err.message = Undefined \/ LooksLikeJSON(err)) /\ err.name = <<>>)
                       => IsSuffix(<<" - ", "Unknown error">>, text)
                /\ LooksLikeJSON(err) => ~Contains(text, err.message)

C11_Witness ==
    /\ GenericException
    /\ Len(last.calls) = 1
    /\ LooksLikeJSON(last.error)
    /\ last.error.name = <<>>
    /\ IsSuffix(<<" - ", "Unknown error">>, last.calls[1].message)

\* C12: for a generic exception the failure hook returns no body, leaves the
\* response status as it was, and makes one Logger call: error level, context
\* "Exception", the error's stack as the trace
C12_ExceptionEffect ==
    GenericException =>
        /\ last.ret = NoBody
        /\ last.status = last.statusBefore
        /\ Len(last.calls) = 1
        /\ last.calls[1].method = "error"
        /\ last.calls[1].context = <<"Exception">>
        /\ last.calls[1].trace = last.error.stack

\* the hook after a successful handler ran and logged the completion
CompletionLogged == last.op = "onAfterHandle" /\ Len(last.calls) = 1

C14_IdPrefix ==
    (last.op \in {"onRequest", "onAfterHandle"} /\ Len(last.calls) = 1) =>
        LET text == last.calls[1].message
            id == ctx[last.req]._requestId
        IN  IF LogRequestId(options)
            THEN /\ Len(text) >= 10
                 /\ text[1] = "["
                 /\ text[10] = "] "
                 /\ id # Undefined => SubSeq(text, 2, 9) = SubSeq(id, 1, 8)
            ELSE text[1] # "["

\* the hooks of request r that made a Logger call with the Router context
RouterSteps(r) ==
    SelectSeq(ctx[r].steps,
              LAMBDA st : \E i \in 1..Len(st.calls) : st.calls[i].context = <<"Router">>)

\* number of Logger calls made for request r with the Router context
RECURSIVE CountRouter(_, _)
CountRouter(steps, n) ==
    IF n = 0 THEN 0
    ELSE CountRouter(steps, n - 1)
         + Cardinality({ i \in 1..Len(steps[n].calls) :
                           steps[n].calls[i].context = <<"Router">> })

RouterLogs(r) == CountRouter(ctx[r].steps, Len(ctx[r].steps))

\* the option is given as false
Disabled(k) == Has(options, k) /\ options[k] = FALSE

\* request r was handled with success
Completed(r) == ctx[r].phase = "completed"

\* C15: with logRequestStart disabled and autoLogging enabled, a request
\* handled with success has exactly one log with context "Router", made by
\* the hook after the handler, and none made at the request's start
C15_OnlyCompletionLog ==
    (Disabled("logRequestStart") /\ ~Disabled("autoLogging")) =>
        \A r \in Requests :
            Completed(r) =>
                /\ RouterLogs(r) = 1
                /\ Len(RouterSteps(r)) = 1
                /\ RouterSteps(r)[1].op = "onAfterHandle"

C15_Witness ==
    /\ Disabled("logRequestStart") /\ ~Disabled("autoLogging")
    /\ \A r \in Requests : Completed(r) /\ RouterLogs(r) = 1

\* C16: with autoLogging disabled no request, handled with success or failed,
\* has a log with context "Router", whatever logRequestStart, logDetails and
\* logRequestId are
C16_NoRouterLog ==
    Disabled("autoLogging") => \A r \in Requests : RouterLogs(r) = 0

C16_Witness ==
    /\ Disabled("autoLogging")
    /\ ~Disabled("logRequestStart")
    /\ LogDetails(options) /\ LogRequestId(options)
    /\ \E r, q \in Requests :
           /\ Completed(r) /\ ctx[q].phase = "failed"
           /\ RouterLogs(r) = 0 /\ RouterLogs(q) = 0

\* step st of request r is its start log: one info log "<METHOD> <path>"
IsStartLog(r, st) ==
    LET req == ctx[r].request
    IN  /\ st.op = "onRequest"
        /\ Len(st.calls) = 1
        /\ st.calls[1].method = "log"
        /\ IsSuffix(req.method \o <<" ">> \o req.path, st.calls[1].message)

\* step st of request r is its completion log: one info log
\* "<METHOD> <path> +<duration>", made by the hook that reads the start mark
IsCompletionLog(r, st) ==
    LET req == ctx[r].request
    IN  /\ st.op = "onAfterHandle"
        /\ Len(st.calls) = 1
        /\ st.calls[1].method = "log"
        /\ IsPrefix(RequestInfo(ctx[r]._requestId) \o req.method \o <<" ">> \o req.path
                    \o <<" ">> \o Color(<<"3", "3">>) \o <<"+">>,
                    st.calls[1].message)

\* C17: with logRequestStart and autoLogging enabled, a request handled with
\* success has a start log "<METHOD> <path>" and a completion log
\* "<METHOD> <path> +<duration>", both at info level, and the start log comes
\* before the hook that reads the start mark and logs the completion
C17_StartThenCompletion ==
    (~Disabled("logRequestStart") /\ ~Disabled("autoLogging")) =>
        \A r \in Requests :
            Completed(r) =>
                \E i, j \in 1..Len(ctx[r].steps) :
                    /\ i < j
                    /\ IsStartLog(r, ctx[r].steps[i])
                    /\ IsCompletionLog(r, ctx[r].steps[j])

\* options.logDetails is true
DetailsOn == Has(options, "logDetails") /\ options.logDetails = TRUE

\* the base message of request r's completion log for a duration
BaseMessage(r, durationNs) ==
    RequestInfo(ctx[r]._requestId) \o ctx[r].request.method \o <<" ">>
    \o ctx[r].request.path \o <<" ">> \o pcYellow(<<"+">> \o DurationString(durationNs))

\* C18: when logDetails is not true the completion message is the base
\* message and nothing more, and a request with the same method, path, id and
\* duration but another query, other path parameters and another body gets
\* the same message
C18_BaseMessageOnly ==
    (CompletionLogged /\ ~DetailsOn) =>
        LET c == ctx[last.req]
            text == last.calls[1].message
        IN  /\ text = BaseMessage(last.req, last.durationNs)
            /\ \A req \in DetailRequests :
                   (req.method = c.request.method /\ req.path = c.request.path)
                   => onAfterHandle(options, c, req, store.pathname,
                                    c._start + last.durationNs)[1].message = text

C18_Witness ==
    /\ CompletionLogged
    /\ Disabled("logDetails")
    /\ store.pathname = Undefined
    /\ ctx[last.req].request.params = "id"
    /\ ctx[last.req].request.body = "object"
    /\ Contains(ctx[last.req].request.url, <<"?", "q", "=", "1">>)
    /\ last.calls[1].message = BaseMessage(last.req, last.durationNs)

\* the request's URL has a "?" with something after it
HasQuery(req) == \E i \in 1..(Len(req.url) - 1) : req.url[i] = "?"
\* the request has at least one path parameter
HasParams(req) == req.params = "id"
\* the request's body is neither null nor undefined
HasBody(req) == req.body = "object"

\* C19: when logDetails is true the details have key query iff the URL has a
\* non-empty query string, key params iff the request has a path parameter,
\* and key body iff the body is neither null nor undefined; the JSON of the
\* details follows the base message iff one of the keys is there
C19_DetailsKeys ==
    (CompletionLogged /\ DetailsOn) =>
        LET req == ctx[last.req].request
            text == last.calls[1].message
            base == BaseMessage(last.req, last.durationNs)
            suffix == SubSeq(text, Len(base) + 1, Len(text))
        IN  /\ IsPrefix(base, text)
            /\ Contains(suffix, <<"\"query\":">>) <=> HasQuery(req)
            /\ Contains(suffix, <<"\"params\":">>) <=> HasParams(req)
            /\ Contains(suffix, <<"\"body\":">>) <=> HasBody(req)
            /\ (suffix # <<>>) <=> (HasQuery(req) \/ HasParams(req) \/ HasBody(req))
            /\ suffix # <<>> =>
                   /\ IsPrefix(<<" ", "{">>, suffix)
                   /\ IsSuffix(<<"}">>, suffix)

C19_Witness ==
    /\ CompletionLogged /\ DetailsOn
    /\ ctx[last.req].request.params = "empty"
    /\ ctx[last.req].request.body = "null"
    /\ HasQuery(ctx[last.req].request)
    /\ Contains(last.calls[1].message, <<"\"query\":">>)
    /\ ~Contains(last.calls[1].message, <<"\"params\":">>)

\* s holds a complete styling token: ESC, "[", any digits and ";", a letter
HasToken(s) ==
    \E i, j \in 1..Len(s) :
        /\ i + 2 <= j
        /\ s[i] = ESC
        /\ s[i + 1] = "["
        /\ \A k \in (i + 2)..(j - 1) : s[k] \in Digits \cup {";"}
        /\ s[j] \in Letters

\* C20: the result of stripAnsi holds no complete styling token, and
\* stripAnsi applied to a result of stripAnsi gives that result back
C20_StripIdempotent ==
    last.op = "stripAnsi" =>
        /\ ~HasToken(last.output)
        /\ last.pass >= 2 => last.output = last.input

\* the status the claim gives each constructor, and its English name
NamedStatus ==
    [BadRequest |-> 400, Unauthorized |-> 401, Forbidden |-> 403, NotFound |-> 404,
     MethodNotAllowed |-> 405, Conflict |-> 409, PreconditionFailed |-> 412,
     UnprocessableEntity |-> 422, TooManyRequests |-> 429, InternalServerError |-> 500]
CanonicalName ==
    [BadRequest |-> <<"Bad Request">>, Unauthorized |-> <<"Unauthorized">>,
     Forbidden |-> <<"Forbidden">>, NotFound |-> <<"Not Found">>,
     MethodNotAllowed |-> <<"Method Not Allowed">>, Conflict |-> <<"Conflict">>,
     PreconditionFailed |-> <<"Precondition Failed">>,
     UnprocessableEntity |-> <<"Unprocessable Entity">>,
     TooManyRequests |-> <<"Too Many Requests">>,
     InternalServerError |-> <<"Internal Server Error">>]

\* C21: each named constructor gives an error with its fixed status, and
\* toJSON gives {status, message} with the argument as the message, or the
\* constructor's English name if no argument was given
C21_NamedConstructors ==
    /\ DOMAIN HttpErrorFactories = DOMAIN NamedStatus
    /\ last.op \in {"HttpError", "toJSON"} =>
           last.error.status = NamedStatus[last.factory]
    /\ last.op = "toJSON" =>
           /\ DOMAIN last.ret = {"status", "message"}
           /\ last.ret.status = NamedStatus[last.factory]
           /\ last.ret.message = IF last.argument = NoArgument
                                  THEN [str |-> CanonicalName[last.factory]]
                                  ELSE last.argument

C21_Witness ==
    /\ last.op = "toJSON"
    /\ last.factory = "TooManyRequests"
    /\ last.argument = NoArgument
    /\ last.ret = [status |-> 429, message |-> [str |-> <<"Too Many Requests">>]]

\* record rec went to pino with a trace that is a value
CarriesTrace(rec) == Has(rec, "trace") /\ rec.trace # Undefined

\* C22: every record given to the structured sink has the fields level, msg
\* and context, its msg holds no styling token, and it has a trace only if
\* the call was an error call that was given a trace
C22_StructuredRecord ==
    \A i \in 1..Len(pinoOut) :
        /\ {"level", "msg", "context"} \subseteq DOMAIN pinoOut[i]
        /\ ~HasToken(pinoOut[i].msg)
        /\ CarriesTrace(pinoOut[i]) =>
               /\ last.calls[1].method = "error"
               /\ last.calls[1].trace # Undefined

\* C23: every string written to the pretty sink ends with a newline, with the
\* built-in template and with a caller's formatter; an error call with a
\* trace writes the trace as a second line ending with a newline
C23_NewlineTerminated ==
    /\ \A i \in 1..Len(stdout) : IsSuffix(<<"\n">>, stdout[i])
    /\ (LoggerCalled /\ stdout # <<>> /\ last.calls[1].method = "error"
         /\ last.calls[1].trace # Undefined) =>
           /\ Len(stdout) = 2
           /\ stdout[2] = last.calls[1].trace \o <<"\n">>

\* C24: logRequestId counts as true when it is not given: derive gives the
\* request a correlation id and its completion log begins with "[", the
\* first 8 characters of the id and "] ", as with logRequestId = true
C24_IdByDefault ==
    ~Disabled("logRequestId") =>
        /\ last.op = "derive" => ctx[last.req]._requestId # Undefined
        /\ CompletionLogged =>
               /\ ctx[last.req]._requestId # Undefined
               /\ IsPrefix(<<"[">> \o SubSeq(ctx[last.req]._requestId, 1, 8) \o <<"] ">>,
                           last.calls[1].message)

\* C25: a write that fails during a Logger call reaches the call's caller as
\* an error, and when the call has returned every write it made is done
C25_WriteIsSynchronous ==
    last.op \in {"write", "settle"} =>
        /\ \A i \in 1..Len(last.writes) :
               last.writes[i].state = "rejected" => last.thrown
        /\ \A i \in 1..Len(last.writes) : last.writes[i].state = "fulfilled"

\* request r has a log made by the hook op
HasLogFrom(r, op) ==
    \E i \in 1..Len(ctx[r].steps) :
        ctx[r].steps[i].op = op /\ ctx[r].steps[i].calls # <<>>

\* C26: no request has both a completion log and a failure log
C26_ExclusiveOutcome ==
    \A r \in Requests :
        ~(HasLogFrom(r, "onAfterHandle") /\ HasLogFrom(r, "onError"))

\* the failure hook logged and answered the error as a typed HTTP error
ClassifiedAsHttpError ==
    /\ Len(last.calls) = 1
    /\ last.calls[1].context = <<"HttpError">>
    /\ last.calls[1].context \notin {<<"ValidationError">>, <<"Exception">>}
    /\ last.status = last.error.status
    /\ Has(last.ret, "status")

After(url, c) == { i \in 5..Len(url) : url[i] = c }

\* the path component of a URL h://authority[/path][?query]
PathOf(url) ==
    LET end == IF After(url, "?") = {} THEN Len(url) ELSE Min(After(url, "?")) - 1
        slashes == { i \in After(url, "/") : i <= end }
    IN  IF slashes = {} THEN <<"/">> ELSE SubSeq(url, Min(slashes), end)

\* C28: getPathname returns the path component of the URL, from the first
\* "/" after the scheme separator up to the first "?" or the end, and "/" if
\* the URL has no path; the result starts with "/" and holds no "?"
C28_PathComponent ==
    last.op = "getPathname" =>
        /\ last.ret = PathOf(last.url)
        /\ IsPrefix(<<"/">>, last.ret)
        /\ ~Contains(last.ret, <<"?">>)

\* a path with only a leading "/" removed
StripLeading(path) == IF StartsWith(path, "/") THEN Tail(path) ELSE path

\* the field shown for the entry in the log text and in the response details
FieldShown(entry, field) ==
    /\ last.op = "formatValidationErrors"
       => last.ret = field \o <<": ">> \o entry.message
    /\ last.op = "buildValidationResponse"
       => last.ret.details[1].field = field

\* C29: the field shown for a validation error entry, in the log and in the
\* response details, is the entry's path with only a leading "/" removed: a
\* path without a leading "/" is unchanged and later separators are kept
C29_FieldIsPath ==
    last.op \in {"formatValidationErrors", "buildValidationResponse"}
    => FieldShown(last.errors[1], StripLeading(last.errors[1].path))

\* the texts a Logger call shows: the lines of the pretty sink written with
\* the built-in template, and the msg of the records of the structured sink
Shown ==
    IF Has(options, "formatter") THEN {}
    ELSE (IF stdout = <<>> THEN {} ELSE {stdout[1]})
         \cup { pinoOut[i].msg : i \in 1..Len(pinoOut) }

\* C30: whatever the number of Logger constructions there is exactly one
\* refresh timer; a Logger call shows the cached timestamp and leaves it as
\* it was, and only a tick of the timer changes the cached timestamp, so the
\* value shown is the initial one or the one set by the most recent tick
C30_SingleTimer ==
    /\ [](timer = 1)
    /\ [](LoggerCalled => \A text \in Shown : Contains(text, TimeString(cachedTime)))
    /\ [][last'.op = "Logger" => cachedTime' = cachedTime]_vars
    /\ [][cachedTime' # cachedTime => last'.op = "tick"]_vars

\* the timer has ticked and a call of a Logger with the structured sink
\* shows the refreshed timestamp
C30_Witness ==
    /\ LoggerCalled /\ Shown # {}
    /\ timer = 1 /\ cachedTime = MaxTicks
    /\ Has(options, "transport")
    /\ \A text \in Shown : Contains(text, TimeString(MaxTicks))

====
